---- MODULE Spec2Model ----
(***************************************************************************)
(* Model of the visit-processor test harness:                              *)
(*   automated_tester.py      TestResult, HTMLReporter, VisitDocumentTester,*)
(*                            OllamaTextGenerator, main                    *)
(*   generate_test_itinerary.py   generate_itinerary                       *)
(* The spreadsheet application, the text-generation server and the screen  *)
(* capture library are the environment: every call into them either        *)
(* returns or raises, chosen nondeterministically.                         *)
(***************************************************************************)
EXTENDS Integers, Sequences, FiniteSets, TLC

VARIABLES
    tests,          \* heap of TestResult objects, addressed by index
    current_test,   \* VisitDocumentTester.current_test: 0 is None, else an index of tests
    test_results,   \* VisitDocumentTester.test_results: sequence of indexes of tests
    reports,        \* the HTML reports written so far, in order
    last,           \* the last call made on the tester: its inputs and its return value
    pc,             \* position of main / scenario_normal_day
    attempts,       \* the step actions invoked so far by the running scenario, in order
    gen,            \* the OllamaTextGenerator object and the traffic of its last call
    itin,           \* generate_itinerary: the worksheet being written and the loop state
    upd,            \* generate_updated_itinerary: the file loaded, the loop state, the file saved
    fill            \* _fill_visit: its arguments, its locals, the sheet and what it did to it

vars == <<tests, current_test, test_results, reports, last, pc, attempts, gen, itin, upd, fill>>

\* ------------------------------------------------------------------ bounds
MaxCalls == 5       \* calls that leave a record, in the free-call specification

None == "None"

\* ------------------------------------------- values of idle components
\* position of a caller that is not main
Idle == [fn |-> "caller", i |-> 0]

\* position i of function fn
At(fn, i) == [fn |-> fn, i |-> i]

\* what an HTTP request does: it raises, or returns a status with a body.
\* json: "object" a JSON object whose "response" is the string text,
\*       "no_response" a JSON object without "response",
\*       "null_response" a JSON object whose "response" is null,
\*       "invalid" a body that is not JSON
Response(raises, status, json, text) ==
    [raises |-> raises, status |-> status, json |-> json, text |-> text]

NoResponse == Response(FALSE, 0, "none", <<>>)

\* gen: the generator object (available), what its constructor saw, and the
\* last call of generate with the traffic it caused
NoGenerator ==
    [constructed |-> FALSE, requests_available |-> FALSE, probed |-> FALSE,
     probe |-> NoResponse, available |-> FALSE,
     called |-> FALSE, method |-> None, posts |-> 0, response |-> NoResponse,
     result |-> <<>>, raised |-> FALSE]

\* a worksheet without cells
EmptySheet == [p \in {} |-> 0]

\* no call of generate_itinerary
NoItinerary ==
    [at |-> "none", num_visits |-> 0, officer_pair |-> <<>>,
     ws |-> EmptySheet, i |-> 0, used_names |-> {}, used_addresses |-> {},
     saved |-> FALSE, file |-> EmptySheet]

\* no call of generate_updated_itinerary
NoUpdate == [at |-> "none"]

\* no call of _fill_visit
NoFill == [at |-> "none"]

\* ------------------------------------------------------------ TestResult
\* TestResult.__init__; screenshots is the length of the screenshots list
TestResult(name) ==
    [name |-> name, status |-> "running", end_time |-> None,
     steps |-> <<>>, errors |-> <<>>, screenshots |-> 0]

\* TestResult.add_step
add_step(t, description, status, details) ==
    [t EXCEPT !.steps = Append(@, [description |-> description,
                                   status |-> status, details |-> details])]

\* TestResult.add_error
add_error(t, error) ==
    [t EXCEPT !.errors = Append(@, [error |-> error])]

\* finish that takes the status as given, whatever the errors
finish_keeps_status(t, status) ==
    [t EXCEPT !.end_time = "set", !.status = status]

\* TestResult.finish (status defaults to "pass")
finish(t, status) ==
    [t EXCEPT !.end_time = "set",
              !.status = IF t.errors = <<>> THEN status ELSE "fail"]

\* ------------------------------------------------- the actions of a step
\* What the environment does during one step action:
\*   com    an automation call made outside any try block raises
\*   macro  the macro run inside a try block raises
\*   sheet  workbook.Sheets(name) returns the sheet (does not raise)
\*   found  the searched section (visit header / metrics header) is on the sheet
\*   bad    a metrics cell holds an error value containing "#"
Env(com, macro, sheet, found, bad) ==
    [com |-> com, macro |-> macro, sheet |-> sheet, found |-> found, bad |-> bad]

\* outcome of an action: did it raise, with which message, and what it did
Returned(macroFailed, filled) ==
    [raised |-> FALSE, msg |-> None, macroFailed |-> macroFailed, filled |-> filled]
Raised(msg) ==
    [raised |-> TRUE, msg |-> msg, macroFailed |-> FALSE, filled |-> FALSE]

\* VisitDocumentTester.run_macro: True when the macro ran, False when it raised
run_macro(env) == ~env.macro

\* VisitDocumentTester.get_sheet: the sheet, or None when Sheets(name) raises
get_sheet(env) == IF env.sheet THEN "ws" ELSE None

\* lambda: (workbook.Sheets(...).Activate(), action_delay())
navigate(env) ==
    IF env.com THEN Raised("com_error") ELSE Returned(FALSE, FALSE)

\* set_date / set_officers: ws = get_sheet(...); ws.Range(...).Value = ...
set_cells(env) ==
    IF get_sheet(env) = None THEN Raised("'NoneType' object has no attribute 'Range'")
    ELSE IF env.com THEN Raised("com_error")
    ELSE Returned(FALSE, FALSE)

\* VisitDocumentTester._load_itinerary_direct: Application.Run outside any try
_load_itinerary_direct(env) ==
    IF env.com THEN Raised("com_error") ELSE Returned(FALSE, FALSE)

\* lambda: (self.run_macro(name), self.action_delay()): the result of
\* run_macro is dropped
macro_step(env) == Returned(~run_macro(env), FALSE)

\* VisitDocumentTester._fill_visit, as far as its control flow goes:
\* no sheet or no section: plain return; the export macro runs in a try block
_fill_visit(env) ==
    IF get_sheet(env) = None THEN Returned(FALSE, FALSE)
    ELSE IF env.com THEN Raised("com_error")
    ELSE IF ~env.found THEN Returned(FALSE, FALSE)
    ELSE Returned(env.macro, TRUE)

\* VisitDocumentTester._validate_metrics
_validate_metrics(env) ==
    IF get_sheet(env) = None THEN Returned(FALSE, FALSE)
    ELSE IF env.com THEN Raised("com_error")
    ELSE IF ~env.found THEN Raised("Metrics section not found")
    ELSE IF env.bad THEN Raised("Excel error found")
    ELSE Returned(FALSE, FALSE)

\* the environments that differ for an action of the given kind: only the
\* calls that the action makes are drawn
EnvsOf(kind) ==
    CASE kind = "none" -> {Env(FALSE, FALSE, TRUE, TRUE, FALSE)}
      [] kind \in {"navigate", "load_itinerary"} ->
            {Env(c, FALSE, TRUE, TRUE, FALSE) : c \in BOOLEAN}
      [] kind \in {"set_date", "set_officers"} ->
            {Env(c, FALSE, s, TRUE, FALSE) : c \in BOOLEAN, s \in BOOLEAN}
      [] kind = "run_macro" ->
            {Env(FALSE, m, TRUE, TRUE, FALSE) : m \in BOOLEAN}
      [] kind = "fill_visit" ->
            {Env(c, m, s, f, FALSE) : c \in BOOLEAN, m \in BOOLEAN,
                                      s \in BOOLEAN, f \in BOOLEAN}
      [] kind = "validate_metrics" ->
            {Env(c, FALSE, s, f, b) : c \in BOOLEAN, s \in BOOLEAN,
                                      f \in BOOLEAN, b \in BOOLEAN}

\* action_func(): the call made by step
action_func(kind, env) ==
    CASE kind = "none" -> Returned(FALSE, FALSE)
      [] kind = "navigate" -> navigate(env)
      [] kind \in {"set_date", "set_officers"} -> set_cells(env)
      [] kind = "load_itinerary" -> _load_itinerary_direct(env)
      [] kind = "run_macro" -> macro_step(env)
      [] kind = "fill_visit" -> _fill_visit(env)
      [] kind = "validate_metrics" -> _validate_metrics(env)

\* ------------------------------------------------ VisitDocumentTester
\* the record of a call, kept in last
Call(op, description, o, ret) ==
    [op |-> op, description |-> description, raised |-> o.raised,
     msg |-> o.msg, macroFailed |-> o.macroFailed, filled |-> o.filled,
     ret |-> ret]

NoOutcome == Returned(FALSE, FALSE)

\* step whose except clause records the failed step but no error
step_record_no_error(t, description, o, screenshot, shot) ==
    IF ~o.raised
    THEN add_step(t, description, "pass", None)
    ELSE add_step(t, description, "fail", o.msg)

\* the TestResult after step(description, action_func, screenshot) ran on it;
\* shot is the path returned by ScreenshotCapture.capture, or None
step_record(t, description, o, screenshot, shot) ==
    IF ~o.raised
    THEN LET t1 == IF screenshot /\ shot # None
                   THEN [t EXCEPT !.screenshots = @ + 1]
                   ELSE t
         IN add_step(t1, description, "pass", None)
    ELSE add_error(add_step(t, description, "fail", o.msg), o.msg)

\* VisitDocumentTester.start_test
start_test(name) ==
    /\ tests' = Append(tests, TestResult(name))
    /\ current_test' = Len(tests) + 1
    /\ last' = Call("start_test", name, NoOutcome, None)
    /\ UNCHANGED <<test_results, reports>>

\* VisitDocumentTester.step; without a current test nothing is recorded
step(description, kind, env, screenshot, shot) ==
    LET o == action_func(kind, env) IN
    /\ tests' = IF current_test # 0
                THEN [tests EXCEPT ![current_test] =
                        step_record(@, description, o, screenshot, shot)]
                ELSE tests
    /\ last' = Call("step", description, o, ~o.raised)
    /\ UNCHANGED <<current_test, test_results, reports>>

\* finish_test that appends the finished TestResult twice
finish_test_appends_twice ==
    /\ IF current_test # 0
       THEN /\ tests' = [tests EXCEPT ![current_test] = finish(@, "pass")]
            /\ test_results' = test_results \o <<current_test, current_test>>
       ELSE UNCHANGED <<tests, test_results>>
    /\ last' = Call("finish_test", None, NoOutcome, None)
    /\ UNCHANGED <<current_test, reports>>

\* VisitDocumentTester.finish_test; current_test is left pointing at the
\* finished TestResult
finish_test ==
    /\ IF current_test # 0
       THEN /\ tests' = [tests EXCEPT ![current_test] = finish(@, "pass")]
            /\ test_results' = Append(test_results, current_test)
       ELSE UNCHANGED <<tests, test_results>>
    /\ last' = Call("finish_test", None, NoOutcome, None)
    /\ UNCHANGED <<current_test, reports>>

\* ---------------------------------------------------------- HTMLReporter
\* number of elements of a sequence that satisfy a status test
RECURSIVE count_status(_, _)
count_status(results, status) ==
    IF results = <<>> THEN 0
    ELSE (IF Head(results).status = status THEN 1 ELSE 0)
         + count_status(Tail(results), status)

\* step entries that leave out the failed steps
steps_html_skips_failed(result) ==
    LET shown == SelectSeq(result.steps, LAMBDA st : st.status = "pass")
    IN [j \in 1..Len(shown) |->
          [status |-> shown[j].status, description |-> shown[j].description]]

\* the step entries of one test case: <div class="step {status}"> with the
\* description, one per element of result.steps, in list order
steps_html(result) ==
    [j \in 1..Len(result.steps) |->
        [status |-> result.steps[j].status,
         description |-> result.steps[j].description]]

\* a report whose Passed card counts every test
_build_html_counts_all(results) ==
    [passed |-> Len(results), failed |-> 0,
     cases |-> [i \in 1..Len(results) |->
                  [name |-> results[i].name, status |-> results[i].status,
                   steps |-> [j \in 1..Len(results[i].steps) |->
                                [status |-> results[i].steps[j].status,
                                 description |-> results[i].steps[j].description]],
                   screenshots |-> results[i].screenshots]]]

\* HTMLReporter._build_html: the summary cards and one test case per result
_build_html(results) ==
    LET total_tests == Len(results)
        passed == count_status(results, "pass")
        failed == total_tests - passed
    IN [passed |-> passed, failed |-> failed,
        cases |-> [i \in 1..Len(results) |->
                     [name |-> results[i].name, status |-> results[i].status,
                      steps |-> steps_html(results[i]),
                      screenshots |-> results[i].screenshots]]]

\* the TestResult objects test_results refers to
Results == [i \in 1..Len(test_results) |-> tests[test_results[i]]]

\* VisitDocumentTester.generate_report -> HTMLReporter.generate_report;
\* written is FALSE when opening or writing the report file raises
generate_report(written) ==
    /\ reports' = IF written THEN Append(reports, _build_html(Results)) ELSE reports
    /\ last' = [Call("generate_report", None, NoOutcome, None)
                  EXCEPT !.raised = ~written]
    /\ UNCHANGED <<tests, current_test, test_results>>

\* ------------------------------------------- specification: free calls
\* Any caller of a VisitDocumentTester: the four operations in any order,
\* until MaxCalls of them have left a record.
Names == {"Normal Day Workflow"}
CallerKinds == {"set_date", "run_macro", "fill_visit"}
Paths == {None, "shot.png"}

\* each step of the scenarios names its action
DescriptionOf(kind) ==
    CASE kind = "set_date" -> "Set visit date to today"
      [] kind = "run_macro" -> "Create Visit Sheet"
      [] kind = "fill_visit" -> "Fill out Visit #1"

Init ==
    /\ tests = <<>>
    /\ current_test = 0
    /\ test_results = <<>>
    /\ reports = <<>>
    /\ last = Call("init", None, NoOutcome, None)
    /\ pc = Idle
    /\ attempts = <<>>
    /\ gen = NoGenerator
    /\ itin = NoItinerary
    /\ upd = NoUpdate
    /\ fill = NoFill

\* the records left so far: tests created, steps recorded, results
\* appended, reports written
RECURSIVE StepsRecorded(_)
StepsRecorded(ts) ==
    IF ts = <<>> THEN 0 ELSE Len(Head(ts).steps) + StepsRecorded(Tail(ts))

Recorded == Len(tests) + StepsRecorded(tests) + Len(test_results) + Len(reports)

Open == Recorded < MaxCalls

CallStartTest ==
    \E name \in Names : Open /\ start_test(name) /\ UNCHANGED <<pc, attempts, gen, itin, upd, fill>>

CallStep ==
    \E kind \in CallerKinds, screenshot \in BOOLEAN :
      \E env \in EnvsOf(kind), shot \in (IF screenshot THEN Paths ELSE {None}) :
        /\ current_test # 0 => Open
        /\ step(DescriptionOf(kind), kind, env, screenshot, shot)
        /\ UNCHANGED <<pc, attempts, gen, itin, upd, fill>>

CallFinishTest ==
    (current_test # 0 => Open) /\ finish_test
        /\ UNCHANGED <<pc, attempts, gen, itin, upd, fill>>

CallGenerateReport ==
    \E written \in BOOLEAN :
        (written => Open) /\ generate_report(written)
            /\ UNCHANGED <<pc, attempts, gen, itin, upd, fill>>

Next == CallStartTest \/ CallStep \/ CallFinishTest \/ CallGenerateReport

Spec == Init /\ [][Next]_vars

\* ------------------------------- specification: the scenarios in a row
\* The three scenario methods, called one after the other as main does with
\* the calls it has commented out: each is start_test, its steps, finish_test;
\* generate_report follows a finished scenario.
Scenarios == <<"Normal Day Workflow", "Mid-Day Update Scenario",
               "Unscheduled Visit Discovery">>

\* a scenario method is between its start_test and its finish_test
Running == current_test # 0 /\ tests[current_test].end_time = None

RunStartTest ==
    /\ ~Running /\ Open
    /\ Len(tests) < Len(Scenarios)
    /\ start_test(Scenarios[Len(tests) + 1])
    /\ UNCHANGED <<pc, attempts, gen, itin, upd, fill>>

RunStep ==
    /\ Running /\ Open
    /\ \E kind \in CallerKinds :
         \E env \in EnvsOf(kind), shot \in Paths :
            step(DescriptionOf(kind), kind, env, TRUE, shot)
    /\ UNCHANGED <<pc, attempts, gen, itin, upd, fill>>

RunFinishTest == Running /\ Open /\ finish_test /\ UNCHANGED <<pc, attempts, gen, itin, upd, fill>>

RunGenerateReport ==
    /\ ~Running /\ test_results # <<>> /\ reports = <<>>
    /\ \E written \in BOOLEAN : (written => Open) /\ generate_report(written)
    /\ UNCHANGED <<pc, attempts, gen, itin, upd, fill>>

NextScenarios == RunStartTest \/ RunStep \/ RunFinishTest \/ RunGenerateReport

SpecScenarios == Init /\ [][NextScenarios]_vars

\* ------------------------------------- specification: the program (main)
\* scenario_normal_day: the twelve steps in program order
NormalDay == <<
    [description |-> "Navigate to Visit Document Processor tab", kind |-> "navigate"],
    [description |-> "Set visit date to today", kind |-> "set_date"],
    [description |-> "Set officers", kind |-> "set_officers"],
    [description |-> "Load itinerary file", kind |-> "load_itinerary"],
    [description |-> "Create Visit Sheet", kind |-> "run_macro"],
    [description |-> "Fill out Visit #1 (Successful, 2 vehicles)", kind |-> "fill_visit"],
    [description |-> "Fill out Visit #2 (Successful, 5 vehicles, RED FLAG)", kind |-> "fill_visit"],
    [description |-> "Fill out Visit #3 (Successful, No Vehicles, RED FLAG)", kind |-> "fill_visit"],
    [description |-> "Fill out Visit #4 (Unsuccessful - P Denied Access)", kind |-> "fill_visit"],
    [description |-> "Fill out Visit #5 (Unsuccessful - Not Home)", kind |-> "fill_visit"],
    [description |-> "Refresh metrics", kind |-> "run_macro"],
    [description |-> "Validate metrics section", kind |-> "validate_metrics"] >>

InitMain ==
    /\ tests = <<>>
    /\ current_test = 0
    /\ test_results = <<>>
    /\ reports = <<>>
    /\ last = Call("init", None, NoOutcome, None)
    /\ pc = At("main", 0)
    /\ attempts = <<>>
    /\ gen = NoGenerator
    /\ itin = NoItinerary
    /\ upd = NoUpdate
    /\ fill = NoFill

Tester == <<tests, current_test, test_results, reports, last>>

\* main: the existence check of the workbook and the itinerary; a missing
\* file returns before the tester is created
MainCheckFiles ==
    /\ pc = At("main", 0)
    /\ \E exist \in BOOLEAN :
          pc' = IF exist THEN At("main", 1) ELSE At("done", 0)
    /\ UNCHANGED <<Tester, attempts, gen, itin, upd, fill>>

\* main: tester.setup(); an exception goes to the except clause and on to
\* the finally clause
MainSetup ==
    /\ pc = At("main", 1)
    /\ \E raises \in BOOLEAN :
          pc' = IF raises THEN At("main", 3) ELSE At("scenario_normal_day", 0)
    /\ UNCHANGED <<Tester, attempts, gen, itin, upd, fill>>

\* scenario_normal_day: self.start_test("Normal Day Workflow")
ScenarioStart ==
    /\ pc = At("scenario_normal_day", 0)
    /\ start_test("Normal Day Workflow")
    /\ pc' = At("scenario_normal_day", 1)
    /\ UNCHANGED <<attempts, gen, itin, upd, fill>>

\* a scenario that goes straight to finish_test when a step fails
ScenarioStep_stops_on_failure ==
    /\ pc.fn = "scenario_normal_day"
    /\ pc.i \in 1..Len(NormalDay)
    /\ LET s == NormalDay[pc.i] IN
       \E env \in EnvsOf(s.kind), shot \in Paths :
          /\ step(s.description, s.kind, env, TRUE, shot)
          /\ attempts' = Append(attempts,
                [description |-> s.description, kind |-> s.kind,
                 ret |-> ~action_func(s.kind, env).raised])
          /\ pc' = IF action_func(s.kind, env).raised
                   THEN At("scenario_normal_day", Len(NormalDay) + 1)
                   ELSE At("scenario_normal_day", pc.i + 1)
    /\ UNCHANGED <<gen, itin, upd, fill>>

\* scenario_normal_day: the i-th self.step(...); the return value of step
\* is not looked at
ScenarioStep ==
    /\ pc.fn = "scenario_normal_day"
    /\ pc.i \in 1..Len(NormalDay)
    /\ LET s == NormalDay[pc.i] IN
       \E env \in EnvsOf(s.kind), shot \in Paths :
          /\ step(s.description, s.kind, env, TRUE, shot)
          /\ attempts' = Append(attempts,
                [description |-> s.description, kind |-> s.kind,
                 ret |-> ~action_func(s.kind, env).raised])
    /\ pc' = At("scenario_normal_day", pc.i + 1)
    /\ UNCHANGED <<gen, itin, upd, fill>>

\* scenario_normal_day: self.finish_test()
ScenarioFinish ==
    /\ pc = At("scenario_normal_day", Len(NormalDay) + 1)
    /\ finish_test
    /\ pc' = At("main", 2)
    /\ UNCHANGED <<attempts, gen, itin, upd, fill>>

\* main: tester.generate_report(); an exception goes to the except clause
MainGenerateReport ==
    /\ pc = At("main", 2)
    /\ \E written \in BOOLEAN : generate_report(written)
    /\ pc' = At("main", 3)
    /\ UNCHANGED <<attempts, gen, itin, upd, fill>>

\* main: finally: tester.teardown(keep_open=True)
MainTeardown ==
    /\ pc = At("main", 3)
    /\ pc' = At("done", 0)
    /\ UNCHANGED <<Tester, attempts, gen, itin, upd, fill>>

NextMain ==
    \/ MainCheckFiles \/ MainSetup \/ ScenarioStart \/ ScenarioStep
    \/ ScenarioFinish \/ MainGenerateReport \/ MainTeardown

SpecMain == InitMain /\ [][NextMain]_vars

\* every call into the spreadsheet returns or raises, so main keeps moving
FairMain == SpecMain /\ WF_vars(NextMain)

\* ================================================= OllamaTextGenerator
MaxTextLen == 2     \* length of a text the service generates

\* A text is a sequence of characters; a fallback text is written as one
\* token.
FALLBACK_RESIDENCE_DESCRIPTIONS == {
    <<"Single story brick home with white trim">>,
    <<"Two story frame house with tan siding">>,
    <<"Apartment complex, unit on second floor">>,
    <<"Single story home with brown brick exterior">>,
    <<"Ranch-style home with beige brick">>,
    <<"Multi-family dwelling, ground floor unit">>,
    <<"Single story frame house with gray siding">>,
    <<"Two story townhouse with stone and stucco exterior">> }

FALLBACK_OBSERVED_DESCRIPTIONS == {
    <<"P answered the front door.">>,
    <<"P came to the door after second knock.">>,
    <<"P answered door promptly.">>,
    <<"P opened door after doorbell ring.">> }

FALLBACK_RED_FLAG_DESCRIPTIONS == {
    <<"Found three empty Bud Light cans">>,
    <<"Observed a glass pipe with burnt residue">>,
    <<"Located a black semi-automatic handgun">>,
    <<"Found a large hunting knife">>,
    <<"Female present in living room had visible bruising">>,
    <<"Children's toys and clothing observed">> }

TestTextEntry == <<"Test text entry.">>

FallbackTexts ==
    FALLBACK_RESIDENCE_DESCRIPTIONS \cup FALLBACK_OBSERVED_DESCRIPTIONS
        \cup FALLBACK_RED_FLAG_DESCRIPTIONS \cup {TestTextEntry}

\* str.strip(): leading and trailing whitespace removed
RECURSIVE lstrip(_)
lstrip(text) ==
    IF text # <<>> /\ Head(text) = " " THEN lstrip(Tail(text)) ELSE text

RECURSIVE rstrip(_)
rstrip(text) ==
    IF text # <<>> /\ text[Len(text)] = " "
    THEN rstrip(SubSeq(text, 1, Len(text) - 1)) ELSE text

strip(text) == rstrip(lstrip(text))

\* a prompt, as far as _fallback_text looks at it: which of the four words
\* prompt.lower() contains
Prompts == [residence : BOOLEAN, home : BOOLEAN, observed : BOOLEAN, red_flag : BOOLEAN]

ServiceTexts == UNION {[1..n -> {" ", "x"}] : n \in 0..MaxTextLen}

Responses ==
    {Response(TRUE, 0, "none", <<>>)}
    \cup {Response(FALSE, st, "none", <<>>) : st \in {404, 500}}
    \cup {Response(FALSE, 200, "object", txt) : txt \in ServiceTexts}
    \cup {Response(FALSE, 200, j, <<>>) : j \in {"no_response", "null_response", "invalid"}}

\* a probe that takes any answer for a running service
_check_availability_any_status(requests_available, probe) ==
    IF ~requests_available THEN FALSE
    ELSE ~probe.raises

\* OllamaTextGenerator._check_availability; probe is the answer to
\* GET /api/tags, asked only when the requests module was imported
_check_availability(requests_available, probe) ==
    IF ~requests_available THEN FALSE
    ELSE IF probe.raises THEN FALSE
    ELSE probe.status = 200

\* OllamaTextGenerator._fallback_text: the texts random.choice can return
_fallback_text(prompt) ==
    IF prompt.residence \/ prompt.home THEN FALLBACK_RESIDENCE_DESCRIPTIONS
    ELSE IF prompt.observed THEN FALLBACK_OBSERVED_DESCRIPTIONS
    ELSE IF prompt.red_flag THEN FALLBACK_RED_FLAG_DESCRIPTIONS
    ELSE {TestTextEntry}

\* what response_text gives when an exception is raised on the way
Failed == <<"raise">>

\* the response text taken without strip()
response_text_unstripped(response) ==
    CASE response.json = "object" -> response.text
      [] response.json = "no_response" -> <<>>
      [] OTHER -> Failed

\* response.json().get("response", "").strip(): the text, or Failed when
\* decoding, .get or .strip raises
response_text(response) ==
    CASE response.json = "object" -> strip(response.text)
      [] response.json = "no_response" -> strip(<<>>)
      [] OTHER -> Failed

\* generate that sends the request a second time when the first one failed
generate_retries(available, prompt, response) ==
    IF ~available
    THEN [posts |-> 0, returns |-> _fallback_text(prompt), raised |-> FALSE]
    ELSE IF ~response.raises /\ response.status = 200
                /\ response.json \in {"object", "no_response"}
         THEN [posts |-> 1, returns |-> {strip(response.text)}, raised |-> FALSE]
         ELSE [posts |-> 2, returns |-> _fallback_text(prompt), raised |-> FALSE]

\* OllamaTextGenerator.generate: the POSTs it sends to /api/generate, the
\* texts it can return, and whether an exception leaves it
generate(available, prompt, response) ==
    IF ~available
    THEN [posts |-> 0, returns |-> _fallback_text(prompt), raised |-> FALSE]
    ELSE IF ~response.raises /\ response.status = 200
                /\ response_text(response) # Failed
         THEN [posts |-> 1, returns |-> {response_text(response)}, raised |-> FALSE]
         ELSE [posts |-> 1, returns |-> _fallback_text(prompt), raised |-> FALSE]

\* ------------------------------------------------ the prompt templates
\* OllamaTextGenerator.generate_residence_description: the template speaks
\* of "a home's EXTERIOR" and of "entering the home"; the address is put
\* into it with the words it has
generate_residence_description(available, address, response) ==
    generate(available,
             [residence |-> address.residence, home |-> TRUE,
              observed |-> address.observed, red_flag |-> address.red_flag],
             response)

\* OllamaTextGenerator.generate_observed_description: every template speaks
\* of a "home visit" and of "the observation", the one for "Wrong Address"
\* also of "the correct residence"
generate_observed_description(available, is_successful, visit_type, reason, response) ==
    LET home_visit == [residence |-> FALSE, home |-> TRUE,
                       observed |-> FALSE, red_flag |-> FALSE]
        prompt ==
            IF visit_type = "FTR" THEN home_visit
            ELSE IF ~is_successful
                 THEN CASE reason = "Not Home" -> home_visit
                        [] reason = "Wrong Address" ->
                              [home_visit EXCEPT !.residence = TRUE]
                        [] reason = "P Denied Access" -> home_visit
                        [] OTHER -> home_visit
                 ELSE home_visit
    IN generate(available, prompt, response)

\* OllamaTextGenerator.generate_red_flag_description: every template of the
\* dict prompts speaks of a "probation home visit", the examples of "Drugs"
\* and "Other" have the word "observed"; prompts.get(flag_type,
\* prompts["Other"]) picks one
generate_red_flag_description(available, flag_type, response) ==
    LET prompts ==
            [k \in {"Alcohol", "Drugs", "Guns", "Knives", "IP", "Other"} |->
                [residence |-> FALSE, home |-> TRUE,
                 observed |-> k \in {"Drugs", "Other"}, red_flag |-> FALSE]]
        prompt == IF flag_type \in DOMAIN prompts THEN prompts[flag_type]
                  ELSE prompts["Other"]
    IN generate(available, prompt, response)

Probes ==
    {Response(TRUE, 0, "none", <<>>)}
    \cup {Response(FALSE, st, "none", <<>>) : st \in {200, 404, 500}}

InitOllama ==
    /\ tests = <<>>
    /\ current_test = 0
    /\ test_results = <<>>
    /\ reports = <<>>
    /\ last = Call("init", None, NoOutcome, None)
    /\ pc = Idle
    /\ attempts = <<>>
    /\ gen = NoGenerator
    /\ itin = NoItinerary
    /\ upd = NoUpdate
    /\ fill = NoFill

\* OllamaTextGenerator.__init__
Construct ==
    /\ ~gen.constructed
    /\ \E requests_available \in BOOLEAN, probe \in Probes :
          gen' = [NoGenerator EXCEPT
                    !.constructed = TRUE,
                    !.requests_available = requests_available,
                    !.probed = requests_available,
                    !.probe = IF requests_available THEN probe ELSE NoResponse,
                    !.available = _check_availability(requests_available, probe)]
    /\ UNCHANGED <<Tester, pc, attempts, itin, upd, fill>>

\* one call of OllamaTextGenerator.generate
Generate ==
    /\ gen.constructed
    /\ \E prompt \in Prompts, response \in Responses :
         LET g == generate(gen.available, prompt, response) IN
         \E text \in g.returns :
            gen' = [gen EXCEPT
                      !.called = TRUE,
                      !.method = "generate",
                      !.posts = g.posts,
                      !.response = IF g.posts > 0 THEN response ELSE NoResponse,
                      !.result = text,
                      !.raised = g.raised]
    /\ UNCHANGED <<Tester, pc, attempts, itin, upd, fill>>

\* one call of generate_residence_description, with an address that has
\* any of the words but "home"
GenerateResidence ==
    /\ gen.constructed
    /\ \E address \in {p \in Prompts : ~p.home},
          response \in Responses :
         LET g == generate_residence_description(gen.available, address, response)
         IN \E text \in g.returns :
               gen' = [gen EXCEPT
                         !.called = TRUE,
                         !.method = "generate_residence_description",
                         !.posts = g.posts,
                         !.response = IF g.posts > 0 THEN response ELSE NoResponse,
                         !.result = text,
                         !.raised = g.raised]
    /\ UNCHANGED <<Tester, pc, attempts, itin, upd, fill>>

\* one call of generate_observed_description; "Other" is a reason without
\* a template of its own
GenerateObserved ==
    /\ gen.constructed
    /\ \E is_successful \in BOOLEAN, visit_type \in {"FTR", "CM", "HR PM"},
          reason \in {"", "Not Home", "Wrong Address", "P Denied Access", "Other"},
          response \in Responses :
         LET g == generate_observed_description(gen.available, is_successful,
                                                visit_type, reason, response)
         IN \E text \in g.returns :
               gen' = [gen EXCEPT
                         !.called = TRUE,
                         !.method = "generate_observed_description",
                         !.posts = g.posts,
                         !.response = IF g.posts > 0 THEN response ELSE NoResponse,
                         !.result = text,
                         !.raised = g.raised]
    /\ UNCHANGED <<Tester, pc, attempts, itin, upd, fill>>

\* one call of generate_red_flag_description; "Weapons" is no key of prompts
GenerateRedFlag ==
    /\ gen.constructed
    /\ \E flag_type \in {"Alcohol", "Drugs", "Guns", "Knives", "IP", "Other",
                          "Weapons"},
          response \in Responses :
         LET g == generate_red_flag_description(gen.available, flag_type, response)
         IN \E text \in g.returns :
               gen' = [gen EXCEPT
                         !.called = TRUE,
                         !.method = "generate_red_flag_description",
                         !.posts = g.posts,
                         !.response = IF g.posts > 0 THEN response ELSE NoResponse,
                         !.result = text,
                         !.raised = g.raised]
    /\ UNCHANGED <<Tester, pc, attempts, itin, upd, fill>>

NextOllama ==
    Construct \/ Generate \/ GenerateResidence \/ GenerateObserved
        \/ GenerateRedFlag

SpecOllama == InitOllama /\ [][NextOllama]_vars

\* ================================================== generate_itinerary
MaxVisits == 3      \* largest num_visits asked for

\* the pools random.choice draws from, cut down to their first entries
DFW_ADDRESSES == {
    [address |-> "1823 Mockingbird Ln", city |-> "Dallas", zip |-> "75235"],
    [address |-> "4521 Live Oak St", city |-> "Dallas", zip |-> "75204"] }
APARTMENT_ADDRESSES == {
    [address |-> "500 N Akard St Apt 101", city |-> "Dallas", zip |-> "75201"] }
FIRST_NAMES == {"JAMES", "MARY"}
LAST_NAMES == {"SMITH", "GARCIA"}
VISIT_TYPES == {"AM Intake", "FTR"}
OFFICER_PAIRS == {
    <<"JOHNSON, SARAH", "MARTINEZ, DAVID">>,
    <<"SMITH, MICHAEL", "GARCIA, JENNIFER">> }
PHONES == {"(214) 200-1000"}

header_row == 7
headers == <<"Loc", "Unit", "Defendant", "Officer", "Starts",
             "Cell Phone", "Address", "City", "Zip", "Comment">>
ADDRESS_ATTEMPTS == 50

\* generate_name: "LAST, FIRST"
generate_name == {<<l, f>> : l \in LAST_NAMES, f \in FIRST_NAMES}

\* get_random_address: a plain address or an apartment with its number
get_random_address == DFW_ADDRESSES \cup APARTMENT_ADDRESSES

\* the draw of a defendant: generate_name() until the name is unused
unique_name(used_names) == {n \in generate_name : n \notin used_names}

\* the draw of an address: get_random_address() again while the address is
\* used and fewer than ADDRESS_ATTEMPTS redraws were made
RECURSIVE unique_address(_, _)
unique_address(used_addresses, redraws) ==
    {a \in get_random_address :
        ~(a.address \in used_addresses /\ redraws < ADDRESS_ATTEMPTS)}
    \cup (IF redraws < ADDRESS_ATTEMPTS
             /\ \E a \in get_random_address : a.address \in used_addresses
          THEN unique_address(used_addresses, redraws + 1)
          ELSE {})

\* (start_time + timedelta(minutes=30 * i)).strftime("%I:%M %p"), start_time
\* being 8:00 AM: 12-hour clock, minutes, AM or PM
strftime_IMp(minutes) ==
    LET m == minutes % 1440
        h == m \div 60
    IN [I |-> IF h % 12 = 0 THEN 12 ELSE h % 12,
        M |-> m % 60,
        p |-> IF h < 12 THEN "AM" ELSE "PM"]

\* chr(ord('B') + i), a string of one character, kept as its code points
unit_letter(i) == <<66 + i>>

\* visit rows that start on the header row
visit_row_on_header(i) == header_row + i

\* the row of the i-th visit (i counts from 0)
visit_row(i) == header_row + 1 + i

\* ws.cell(row=row, column=col, value=values[col]) for the ten columns
write_row(ws, row, values) ==
    [p \in DOMAIN ws \cup {<<row, c>> : c \in 1..10} |->
        IF p[1] = row THEN values[p[2]] ELSE ws[p]]

\* itin: the arguments, the worksheet, the loop counter and the sets of the
\* loop; file is the worksheet as saved, once saved
NewItinerary(num_visits, officer_pair) ==
    [at |-> "headers", num_visits |-> num_visits, officer_pair |-> officer_pair,
     ws |-> EmptySheet, i |-> 0, used_names |-> {}, used_addresses |-> {},
     saved |-> FALSE, file |-> EmptySheet]

InitItinerary ==
    /\ tests = <<>>
    /\ current_test = 0
    /\ test_results = <<>>
    /\ reports = <<>>
    /\ last = Call("init", None, NoOutcome, None)
    /\ pc = Idle
    /\ attempts = <<>>
    /\ gen = NoGenerator
    /\ \E num_visits \in 0..MaxVisits, officer_pair \in OFFICER_PAIRS :
          itin = NewItinerary(num_visits, officer_pair)
    /\ upd = NoUpdate
    /\ fill = NoFill

\* generate_itinerary: the header loop
ItinHeaders ==
    /\ itin.at = "headers"
    /\ itin' = [itin EXCEPT !.ws = write_row(@, header_row, headers),
                            !.at = "rows"]
    /\ UNCHANGED <<Tester, pc, attempts, gen, upd, fill>>

\* generate_itinerary: one pass of the loop over range(num_visits)
ItinRow ==
    /\ itin.at = "rows"
    /\ itin.i < itin.num_visits
    /\ LET i == itin.i IN
       \E defendant \in unique_name(itin.used_names),
          phone \in PHONES,
          a \in unique_address(itin.used_addresses, 0),
          visit_type \in VISIT_TYPES :
          itin' = [itin EXCEPT
             !.ws = write_row(@, visit_row(i),
                      <<i + 1, unit_letter(i), defendant,
                        itin.officer_pair[(i % 2) + 1],
                        strftime_IMp(8 * 60 + 30 * i), phone,
                        a.address, a.city, a.zip, visit_type>>),
             !.used_names = @ \cup {defendant},
             !.used_addresses = @ \cup {a.address},
             !.i = i + 1]
    /\ UNCHANGED <<Tester, pc, attempts, gen, upd, fill>>

\* generate_itinerary: wb.save(output_path) after the loop
ItinSave ==
    /\ itin.at = "rows"
    /\ itin.i >= itin.num_visits
    /\ itin' = [itin EXCEPT !.saved = TRUE, !.file = itin.ws, !.at = "done"]
    /\ UNCHANGED <<Tester, pc, attempts, gen, upd, fill>>

NextItinerary == ItinHeaders \/ ItinRow \/ ItinSave

SpecItinerary == InitItinerary /\ [][NextItinerary]_vars

\* ========================================== generate_updated_itinerary
MaxAdditional == 2  \* largest num_additional asked for

\* for row in range(header_row + 1, 100): the end of the scan for the last row
SCAN_END == 100

\* An original file in the format generate_itinerary writes, with n visits.
\* The first visit has a defendant and an address of the pools, the others
\* have their own.
Original(n) ==
    LET values(k) ==
          <<k, unit_letter(k - 1),
            IF k = 1 THEN <<"SMITH", "JAMES">> ELSE <<"DOE", ToString(k)>>,
            "JOHNSON, SARAH", strftime_IMp(8 * 60 + 30 * (k - 1)),
            "(214) 200-1000",
            IF k = 1 THEN "1823 Mockingbird Ln" ELSE ToString(k),
            "Dallas", "75235", "FTR">>
    IN [p \in (header_row..(header_row + n)) \X (1..10) |->
          IF p[1] = header_row THEN headers[p[2]] ELSE values(p[1] - header_row)[p[2]]]

\* the sizes of the originals: small ones, and the two around the end of
\* the scan
OriginalSizes ==
    (0..MaxVisits) \cup {SCAN_END - header_row - 1, SCAN_END - header_row}

\* ws.cell(row, column).value: None for a cell never written
cell_value(ws, row, column) ==
    IF <<row, column>> \in DOMAIN ws THEN ws[<<row, column>>] ELSE None

\* the scan for the last row with data: rows header_row + 1 .. SCAN_END - 1
\* are looked at, up to the first whose column 1 is empty
RECURSIVE find_last_row(_, _, _)
find_last_row(ws, row, last_row) ==
    IF row >= SCAN_END THEN last_row
    ELSE IF <<row, 1>> \in DOMAIN ws
         THEN find_last_row(ws, row + 1, row)
         ELSE last_row

\* datetime.strptime(last_time_str, "%I:%M %p") as minutes of the day; the
\* header text "Starts", read when there is no data row, does not parse and
\* gives 12:00 PM
strptime_IMp(ws, last_row) ==
    IF last_row = header_row THEN 12 * 60
    ELSE LET t == ws[<<last_row, 5>>]
         IN ((t.I % 12) + (IF t.p = "PM" THEN 12 ELSE 0)) * 60 + t.M

\* the unit of an added visit: chr(ord('B') + k), or "A" and a second
\* letter past 'Z'
updated_unit_letter(k) ==
    IF 66 + k > 90 THEN <<65, 65 + (k - 24)>> ELSE <<66 + k>>

\* the draw of an address: get_random_address() until the address is unused
unused_address(used_addresses) ==
    {a \in get_random_address : a.address \notin used_addresses}

\* upd after the load and the scans, before the loop over range(num_additional)
LoadUpdate(n, original, num_additional) ==
    LET last_row == find_last_row(original, header_row + 1, header_row) IN
    [at |-> "rows", n |-> n, original |-> original,
     num_additional |-> num_additional, ws |-> original,
     last_row |-> last_row, existing_count |-> last_row - header_row,
     existing_officer |-> cell_value(original, header_row + 1, 4),
     used_addresses |-> {original[<<r, 7>>] : r \in (header_row + 1)..last_row},
     used_names |-> {original[<<r, 3>>] : r \in (header_row + 1)..last_row},
     last_time |-> strptime_IMp(original, last_row),
     i |-> 0, saved |-> FALSE, file |-> EmptySheet]

InitUpdated ==
    /\ tests = <<>>
    /\ current_test = 0
    /\ test_results = <<>>
    /\ reports = <<>>
    /\ last = Call("init", None, NoOutcome, None)
    /\ pc = Idle
    /\ attempts = <<>>
    /\ gen = NoGenerator
    /\ itin = NoItinerary
    /\ fill = NoFill
    /\ \E n \in OriginalSizes, num_additional \in 0..MaxAdditional :
          upd = [at |-> "load", n |-> n, num_additional |-> num_additional]

\* generate_updated_itinerary: load_workbook and the scans before the loop
UpdLoad ==
    /\ upd.at = "load"
    /\ upd' = LoadUpdate(upd.n, Original(upd.n), upd.num_additional)
    /\ UNCHANGED <<Tester, pc, attempts, gen, itin, fill>>

\* generate_updated_itinerary: one pass of the loop over range(num_additional)
UpdRow ==
    /\ upd.at = "rows"
    /\ upd.i < upd.num_additional
    /\ LET i == upd.i IN
       \E defendant \in unique_name(upd.used_names),
          phone \in PHONES,
          a \in unused_address(upd.used_addresses),
          visit_type \in VISIT_TYPES :
          upd' = [upd EXCEPT
             !.ws = write_row(@, upd.last_row + 1 + i,
                      <<upd.existing_count + i + 1,
                        updated_unit_letter(upd.existing_count + i),
                        defendant, upd.existing_officer,
                        strftime_IMp(upd.last_time + 30 * (i + 1)), phone,
                        a.address, a.city, a.zip, visit_type>>),
             !.used_names = @ \cup {defendant},
             !.used_addresses = @ \cup {a.address},
             !.i = i + 1]
    /\ UNCHANGED <<Tester, pc, attempts, gen, itin, fill>>

\* generate_updated_itinerary: wb.save(output_path) after the loop
UpdSave ==
    /\ upd.at = "rows"
    /\ upd.i >= upd.num_additional
    /\ upd' = [upd EXCEPT !.saved = TRUE, !.file = upd.ws, !.at = "done"]
    /\ UNCHANGED <<Tester, pc, attempts, gen, itin, fill>>

NextUpdated == UpdLoad \/ UpdRow \/ UpdSave

SpecUpdated == InitUpdated /\ [][NextUpdated]_vars

\* ========================================================= _fill_visit
MaxVisitNum == 10   \* largest visit number filled
MaxVehicles == 3    \* largest vehicle_count of a test_config

\* ------------------------------------------------ the Visit Sheet
\* A cell of column A holds a text; the header of a visit section holds
\* "VISIT #" followed by the number of the visit.
Str(text) == [text |-> text]
VisitHeader(num) == [text |-> "VISIT #", num |-> num]

\* the types of visit an itinerary gives (its Comment column), as their
\* characters, and the empty text of a section without a type
FTR == <<"F", "T", "R">>
AM_INTAKE == <<"A", "M", " ", "I", "n", "t", "a", "k", "e">>
HR_PM == <<"H", "R", " ", "P", "M">>
CM == <<"C", "M">>
FillTypes == {FTR, AM_INTAKE, HR_PM, CM, <<>>}

\* needle in hay, for two texts
contains(needle, hay) ==
    \E k \in 0..(Len(hay) - Len(needle)) :
        SubSeq(hay, k + 1, k + Len(needle)) = needle

\* str(num): the decimal digits of a number
RECURSIVE digits(_)
digits(num) ==
    IF num < 10 THEN <<num>> ELSE Append(digits(num \div 10), num % 10)

\* the section of one visit as the workbook lays it out, header in row start
\* (text areas below their label, two vehicle rows two rows below
\* "Vehicles:", "Outcome:" last); a section without a type has an empty
\* type cell, a section that is not complete has no "Outcome:" row
VISIT_START == 3
Section(start, num, visit_type, complete) ==
    LET labels == <<"Address:", "Type of Visit:", "Residents:",
                    "Description of Residence:", None,
                    "Consent to Enter Home:", "Observed:", None,
                    "Vehicles:", None, None, None,
                    "Red Flags:", None, None, None, None, None, None,
                    "Arrived:", IF complete THEN "Outcome:" ELSE None>>
        rows == {k \in 1..Len(labels) : labels[k] # None}
        typed == IF visit_type = <<>> THEN {} ELSE {<<start + 2, 2>>}
    IN [q \in {<<start, 1>>} \cup {<<start + k, 1>> : k \in rows}
               \cup {<<start + 1, 2>>} \cup typed |->
          IF q = <<start, 1>> THEN VisitHeader(num)
          ELSE IF q[2] = 1 THEN Str(labels[q[1] - start])
          ELSE IF q[1] = start + 1 THEN Str("1823 Mockingbird Ln")
          ELSE visit_type]

\* ws.Cells(r, 1).Value
label_at(ws, r) ==
    IF <<r, 1>> \in DOMAIN ws THEN ws[<<r, 1>>].text ELSE None

\* target in str(cell_val), target being "VISIT #<visit_num>": the text of
\* the cell has "VISIT #" and the digits that follow begin with those of
\* visit_num
target_in(ws, r, visit_num) ==
    /\ <<r, 1>> \in DOMAIN ws
    /\ "num" \in DOMAIN ws[<<r, 1>>]
    /\ LET d == digits(ws[<<r, 1>>].num)
           t == digits(visit_num)
       IN Len(t) <= Len(d) /\ SubSeq(d, 1, Len(t)) = t

\* VisitDocumentTester._find_visit_row: the first row of 1..499 whose
\* column A text contains "VISIT #<visit_num>", 0 for None
_find_visit_row(ws, visit_num) ==
    LET found == {r \in 1..499 : target_in(ws, r, visit_num)} IN
    IF found = {} THEN 0 ELSE CHOOSE r \in found : \A x \in found : r <= x

\* the scan of rows visit_start .. visit_start + 14 for the type of visit:
\* str(value or "") of the cell next to the last "Type of Visit:" label
RECURSIVE read_visit_type(_, _, _, _)
read_visit_type(ws, r, end, visit_type) ==
    IF r >= end THEN visit_type
    ELSE read_visit_type(ws, r + 1, end,
            IF label_at(ws, r) = "Type of Visit:"
            THEN (IF <<r, 2>> \in DOMAIN ws THEN ws[<<r, 2>>] ELSE <<>>)
            ELSE visit_type)

\* ------------------------------------------------ test_config
\* a test_config is a dict: a function from the keys it has
NoConfig == [k \in {} |-> None]
has(test_config, key) == key \in DOMAIN test_config
get(test_config, key, default) ==
    IF key \in DOMAIN test_config THEN test_config[key] ELSE default

\* the calls scenario_normal_day makes
ScenarioCalls == {
    [visit_num |-> 1, test_config |->
        [force_outcome |-> "Successful", vehicle_count |-> 2, force_red_flag |-> FALSE]],
    [visit_num |-> 2, test_config |->
        [force_outcome |-> "Successful", vehicle_count |-> 5, force_red_flag |-> TRUE]],
    [visit_num |-> 3, test_config |->
        [force_outcome |-> "Successful", vehicle_count |-> 0, force_red_flag |-> TRUE]],
    [visit_num |-> 4, test_config |->
        [force_outcome |-> "Unsuccessful", force_reason |-> "P Denied Access",
         vehicle_count |-> 1, force_red_flag |-> FALSE]],
    [visit_num |-> 5, test_config |->
        [force_outcome |-> "Unsuccessful", force_reason |-> "Not Home",
         vehicle_count |-> 1, force_red_flag |-> FALSE]] }

\* the dicts the docstring allows: each key present or not, force_outcome
\* "Successful" or "Unsuccessful", force_reason a reason of an unsuccessful
\* visit, vehicle_count 0 and up, force_red_flag True
Configs ==
    {o @@ y @@ v @@ f :
        o \in {NoConfig} \cup {"force_outcome" :> x : x \in {"Successful", "Unsuccessful"}},
        y \in {NoConfig} \cup {"force_reason" :> x : x \in {"Not Home", "P Denied Access"}},
        v \in {NoConfig} \cup {"vehicle_count" :> x : x \in 0..MaxVehicles},
        f \in {NoConfig, "force_red_flag" :> TRUE}}

\* ------------------------------------------------ the decisions
\* STEP 1: is_successful, given the draw of random.random() > 0.2
is_successful_of(test_config, visit_type, draw) ==
    IF has(test_config, "force_outcome")
    THEN test_config["force_outcome"] = "Successful"
    ELSE IF visit_type = FTR THEN FALSE ELSE draw

\* STEP 1: outcome
outcome_of(test_config, is_successful) ==
    IF has(test_config, "force_outcome")
    THEN test_config["force_outcome"]
    ELSE IF is_successful THEN "Successful" ELSE "Unsuccessful"

\* the reasons drawn for an FTR visit too
reasons_of_any_visit(test_config, visit_type, is_successful) ==
    IF is_successful THEN {""}
    ELSE IF has(test_config, "force_reason") THEN {test_config["force_reason"]}
    ELSE {"Not Home", "Wrong Address", "P Denied Access"}

\* STEP 1: the reasons the code can come to: "" for a successful visit,
\* force_reason, or a random.choice
reasons_of(test_config, visit_type, is_successful) ==
    IF is_successful THEN {""}
    ELSE IF has(test_config, "force_reason") THEN {test_config["force_reason"]}
    ELSE IF visit_type = FTR THEN {"Not Home", "Wrong Address"}
    ELSE {"Not Home", "Wrong Address", "P Denied Access"}

\* base_hour that wraps the afternoon after six visits
base_hour_of_six(visit_type, visit_num) ==
    IF contains(<<"A", "M">>, visit_type) \/ visit_type = AM_INTAKE
    THEN 8 + ((visit_num - 1) % 4)
    ELSE IF contains(<<"P", "M">>, visit_type)
    THEN 12 + ((visit_num - 1) % 6)
    ELSE IF 8 + (visit_num - 1) > 16 THEN 16 ELSE 8 + (visit_num - 1)

\* STEP 2: base_hour
base_hour_of(visit_type, visit_num) ==
    IF contains(<<"A", "M">>, visit_type) \/ visit_type = AM_INTAKE
    THEN 8 + ((visit_num - 1) % 4)
    ELSE IF contains(<<"P", "M">>, visit_type)
    THEN 12 + ((visit_num - 1) % 5)
    ELSE IF 8 + (visit_num - 1) > 16 THEN 16 ELSE 8 + (visit_num - 1)

\* random.randint(0, 45) and random.randint(8, 12): the ends of the ranges
BaseMinutes == {0, 45}
VisitDurations == {8, 12}

\* STEP 3: consent_value
consent_value_of(visit_type, reason, is_successful) ==
    IF visit_type = FTR \/ reason \in {"Not Home", "Wrong Address"} THEN "N/A"
    ELSE IF reason = "P Denied Access" THEN "No"
    ELSE IF is_successful THEN "Yes"
    ELSE "N/A"

\* ------------------------------------------------ what a row does
\* What _fill_visit does to the workbook, in order: a cell written, a text
\* typed into a cell (VisualTyper.type_in_cell), a macro run in a try block.
\* label is the label of the row being filled.  ok tells whether
\* AddVehicleRow raised; what the other macros do changes nothing in
\* _fill_visit, their run is all that is kept.
Write(label, row, col, value) ==
    [op |-> "write", label |-> label, row |-> row, col |-> col,
     value |-> value, ok |-> TRUE]
Typed(label, row, col, text) ==
    [op |-> "type", label |-> label, row |-> row, col |-> col,
     value |-> Str(text), ok |-> TRUE]
Macro(label, name, row, ok) ==
    [op |-> "macro", label |-> label, row |-> row, col |-> 0,
     value |-> Str(name), ok |-> ok]

plates == <<"ABC-1234", "XYZ-5678", "DEF-9012", "GHI-3456", "JKL-7890">>
colors == <<"Blue", "Red", "White", "Black", "Silver">>
makes == <<"Honda", "Toyota", "Ford", "Chevrolet", "Nissan">>
models == <<"Civic", "Camry", "F-150", "Malibu", "Altima">>
flag_types == {"Alcohol", "Drugs", "Guns", "Knives", "IP"}
checkbox_col ==
    [Alcohol |-> 1, Drugs |-> 2, Guns |-> 3, Knives |-> 4, IP |-> 5]

\* the four cells of vehicle v (counted from 0)
vehicle_cells(v, current_row) ==
    << Write("Vehicles:", current_row, 1, Str(plates[(v % Len(plates)) + 1])),
       Write("Vehicles:", current_row, 2, Str(colors[(v % Len(colors)) + 1])),
       Write("Vehicles:", current_row, 3, Str(makes[(v % Len(makes)) + 1])),
       Write("Vehicles:", current_row, 4, Str(models[(v % Len(models)) + 1])) >>

\* a vehicle loop that goes on to the next vehicle after AddVehicleRow raised
RECURSIVE vehicle_loop_continues(_, _, _, _)
vehicle_loop_continues(v, vehicle_count, vehicle_data_row, bad) ==
    IF v >= vehicle_count THEN <<>>
    ELSE IF v >= 2 /\ v = bad
    THEN <<Macro("Vehicles:", "AddVehicleRow", vehicle_data_row + v, FALSE)>>
         \o vehicle_loop_continues(v + 1, vehicle_count, vehicle_data_row, bad)
    ELSE (IF v >= 2
          THEN <<Macro("Vehicles:", "AddVehicleRow", vehicle_data_row + v, TRUE)>>
          ELSE <<>>)
         \o vehicle_cells(v, vehicle_data_row + v)
         \o vehicle_loop_continues(v + 1, vehicle_count, vehicle_data_row, bad)

\* for v in range(vehicle_count), from vehicle v on; bad is the vehicle whose
\* AddVehicleRow raises (vehicle_count when none does)
RECURSIVE vehicle_loop(_, _, _, _)
vehicle_loop(v, vehicle_count, vehicle_data_row, bad) ==
    IF v >= vehicle_count THEN <<>>
    ELSE IF v >= 2 /\ v = bad
    THEN <<Macro("Vehicles:", "AddVehicleRow", vehicle_data_row + v, FALSE)>>
    ELSE (IF v >= 2
          THEN <<Macro("Vehicles:", "AddVehicleRow", vehicle_data_row + v, TRUE)>>
          ELSE <<>>)
         \o vehicle_cells(v, vehicle_data_row + v)
         \o vehicle_loop(v + 1, vehicle_count, vehicle_data_row, bad)

\* the "Vehicles:" branch
vehicles_branch(test_config, r, bad) ==
    LET vehicle_count == get(test_config, "vehicle_count", 1) IN
    IF vehicle_count = 0
    THEN <<Macro("Vehicles:", "NoVehiclesNoted", r, TRUE)>>
    ELSE vehicle_loop(0, vehicle_count, r + 2, bad)

\* a "Red Flags:" branch that does not look at the outcome
red_flags_branch_any_outcome(test_config, is_successful, r, flag_type) ==
    IF get(test_config, "force_red_flag", FALSE)
    THEN << Write("Red Flags:", r, 2, Str("Yes")),
            Macro("Red Flags:", "ToggleRedFlagsSection", r, TRUE),
            Typed("Red Flags:", r + 2, 1, flag_type),
            Write("Red Flags:", r + 6, checkbox_col[flag_type], Str("X")) >>
    ELSE <<>>

\* the "Red Flags:" branch; flag_type is the random.choice
red_flags_branch(test_config, is_successful, r, flag_type) ==
    IF get(test_config, "force_red_flag", FALSE) /\ is_successful
    THEN << Write("Red Flags:", r, 2, Str("Yes")),
            Macro("Red Flags:", "ToggleRedFlagsSection", r, TRUE),
            Typed("Red Flags:", r + 2, 1, flag_type),
            Write("Red Flags:", r + 6, checkbox_col[flag_type], Str("X")) >>
    ELSE <<>>

\* a time as strftime("%I:%M %p") writes it
TimeStr(minutes) == [text |-> "%I:%M %p", time |-> strftime_IMp(minutes)]

\* the "Outcome:" branch
outcome_branch(f, r) ==
    <<Write("Outcome:", r, 2, Str(f.outcome))>>
    \o (IF ~f.is_successful /\ f.reason # ""
        THEN <<Write("Outcome:", r, 4, Str(f.reason))>>
        ELSE <<>>)

\* the labels the loop over the rows has a branch for
LABELS == {"Residents:", "Description of Residence:", "Consent to Enter Home:",
           "Observed:", "Vehicles:", "Red Flags:", "Arrived:", "Outcome:"}

\* the draws of one row, and the vehicle whose AddVehicleRow raises
RowDraws(f, label) ==
    [spouse : IF label = "Residents:" /\ f.is_successful THEN BOOLEAN ELSE {FALSE},
     bad : IF label = "Vehicles:" /\ get(f.test_config, "vehicle_count", 1) > 2
           THEN 2..get(f.test_config, "vehicle_count", 1)
           ELSE {0},
     flag_type : IF label = "Red Flags:" /\ f.is_successful
                    /\ get(f.test_config, "force_red_flag", FALSE)
                 THEN flag_types ELSE {"Alcohol"}]

\* the body of the loop over the rows for a row with the given label
row_branch(f, label, r, d) ==
    CASE label = "Residents:" ->
            IF f.is_successful
            THEN <<Write(label, r, 2, Str(IF d.spouse THEN "P, spouse" ELSE "P"))>>
            ELSE <<>>
      [] label = "Description of Residence:" ->
            <<Typed(label, r + 1, 1, "residence_description")>>
      [] label = "Consent to Enter Home:" ->
            <<Write(label, r, 2, Str(f.consent_value))>>
      [] label = "Observed:" ->
            <<Typed(label, r + 1, 1, "observed_description")>>
      [] label = "Vehicles:" ->
            vehicles_branch(f.test_config, r,
                IF d.bad = 0 THEN get(f.test_config, "vehicle_count", 1) ELSE d.bad)
      [] label = "Red Flags:" ->
            red_flags_branch(f.test_config, f.is_successful, r, d.flag_type)
      [] label = "Arrived:" ->
            << Write(label, r, 2, TimeStr(f.arrival)),
               Write(label, r, 4, TimeStr(f.departure)) >>
      [] label = "Outcome:" -> outcome_branch(f, r)

\* AddVehicleRow when it succeeds: the workbook inserts a row, the rows
\* from there on move one down
insert_row(ws, row) ==
    [q \in {x \in DOMAIN ws : x[1] < row}
           \cup {<<x[1] + 1, x[2]>> : x \in {y \in DOMAIN ws : y[1] >= row}} |->
        IF q[1] < row THEN ws[q] ELSE ws[<<q[1] - 1, q[2]>>]]

\* the sheet after one thing done to it
performed(ws, e) ==
    IF e.op = "macro"
    THEN (IF e.value = Str("AddVehicleRow") /\ e.ok THEN insert_row(ws, e.row) ELSE ws)
    ELSE [q \in DOMAIN ws \cup {<<e.row, e.col>>} |->
             IF q = <<e.row, e.col>> THEN e.value ELSE ws[q]]

RECURSIVE performed_all(_, _)
performed_all(ws, es) ==
    IF es = <<>> THEN ws ELSE performed_all(performed(ws, Head(es)), Tail(es))

\* the first row of r .. end - 1 whose label has a branch, 0 when none has
RECURSIVE next_row(_, _, _)
next_row(ws, r, end) ==
    IF r >= end THEN 0
    ELSE IF label_at(ws, r) \in LABELS THEN r
    ELSE next_row(ws, r + 1, end)

\* ------------------------------------------------ the call
\* fill at the call: the arguments, the workbook (sheet: it has a Visit
\* Sheet, ws: the cells of that sheet), and the locals not yet set
NewFill(visit_num, test_config, sheet, ws) ==
    [at |-> "start", visit_num |-> visit_num, test_config |-> test_config,
     sheet |-> sheet, ws |-> ws, visit_start |-> 0, visit_type |-> <<>>,
     decided |-> FALSE, is_successful |-> FALSE, outcome |-> "", reason |-> "",
     base_hour |-> 0, arrival |-> 0, departure |-> 0, consent_value |-> "",
     r |-> 0, log |-> <<>>]

\* the calls: those of scenario_normal_day, every visit number without a
\* dict (_fill_unscheduled_visit, _fill_latest_visits), and the first visit
\* with every dict
FillCalls ==
    {<<c.visit_num, c.test_config>> : c \in ScenarioCalls}
    \cup ((1..MaxVisitNum) \X {NoConfig}) \cup ({1} \X Configs)

\* the workbooks: without a Visit Sheet, with an empty one, with one that
\* has the section of the visit, complete or not, and, for a call without a
\* dict, with one that has the section of another visit only
InitFill ==
    /\ tests = <<>>
    /\ current_test = 0
    /\ test_results = <<>>
    /\ reports = <<>>
    /\ last = Call("init", None, NoOutcome, None)
    /\ pc = Idle
    /\ attempts = <<>>
    /\ gen = NoGenerator
    /\ itin = NoItinerary
    /\ upd = NoUpdate
    /\ \E c \in FillCalls :
          \/ fill = NewFill(c[1], c[2], FALSE, EmptySheet)
          \/ fill = NewFill(c[1], c[2], TRUE, EmptySheet)
          \/ \E visit_type \in FillTypes :
                fill = NewFill(c[1], c[2], TRUE,
                               Section(VISIT_START, c[1], visit_type, TRUE))
          \/ fill = NewFill(c[1], c[2], TRUE,
                            Section(VISIT_START, c[1], FTR, FALSE))
          \/ /\ c[2] = NoConfig
             /\ \E other \in (1..(MaxVisitNum + 2)) \ {c[1]} :
                   fill = NewFill(c[1], c[2], TRUE,
                                  Section(VISIT_START, other, CM, TRUE))

\* _fill_visit up to the loop over the rows: get_sheet, _find_visit_row, the
\* type of visit, STEP 1 to STEP 3.  An automation call outside a try block
\* (ws.Activate(), ws.Cells) may raise.
FillStart ==
    /\ fill.at = "start"
    /\ IF ~fill.sheet THEN fill' = [fill EXCEPT !.at = "returned"]
       ELSE LET visit_start == _find_visit_row(fill.ws, fill.visit_num) IN
            IF visit_start = 0 THEN fill' = [fill EXCEPT !.at = "returned"]
            ELSE \/ fill' = [fill EXCEPT !.at = "raised", !.visit_start = visit_start]
                 \/ LET visit_type == read_visit_type(fill.ws, visit_start,
                                                      visit_start + 15, <<>>)
                    IN \E draw \in BOOLEAN :
                       LET is_successful ==
                              is_successful_of(fill.test_config, visit_type, draw)
                       IN \E reason \in reasons_of(fill.test_config, visit_type,
                                                   is_successful),
                             base_minute \in BaseMinutes,
                             visit_duration \in VisitDurations :
                          LET base_hour == base_hour_of(visit_type, fill.visit_num)
                              arrival == base_hour * 60 + base_minute
                          IN fill' = [fill EXCEPT
                                !.at = "rows", !.visit_start = visit_start,
                                !.visit_type = visit_type, !.decided = TRUE,
                                !.is_successful = is_successful,
                                !.outcome = outcome_of(fill.test_config, is_successful),
                                !.reason = reason,
                                !.base_hour = base_hour,
                                !.arrival = arrival,
                                !.departure = arrival + visit_duration,
                                !.consent_value =
                                    consent_value_of(visit_type, reason, is_successful),
                                !.r = visit_start]
    /\ UNCHANGED <<Tester, pc, attempts, gen, itin, upd>>

\* one pass of the loop over range(visit_start, visit_start + 60) that comes
\* to a branch (the rows before it have no label, or one without a branch);
\* the branch runs to its end, or an automation call outside a try block
\* raises after k of the things the branch does
FillRow ==
    /\ fill.at = "rows"
    /\ next_row(fill.ws, fill.r, fill.visit_start + 60) # 0
    /\ LET r == next_row(fill.ws, fill.r, fill.visit_start + 60)
           label == label_at(fill.ws, r)
       IN \E d \in RowDraws(fill, label) :
          LET es == row_branch(fill, label, r, d) IN
          \/ fill' = [fill EXCEPT
                !.at = IF label = "Outcome:" THEN "export" ELSE "rows",
                !.r = r + 1,
                !.ws = performed_all(@, es),
                !.log = @ \o es]
          \/ \E k \in 0..(Len(es) - 1) :
                /\ es[k + 1].op # "macro"
                /\ fill' = [fill EXCEPT
                      !.at = "raised",
                      !.r = r,
                      !.ws = performed_all(@, SubSeq(es, 1, k)),
                      !.log = @ \o SubSeq(es, 1, k)]
    /\ UNCHANGED <<Tester, pc, attempts, gen, itin, upd>>

\* the loop over the rows ends without a break: no row with a branch is left
FillRowsEnd ==
    /\ fill.at = "rows"
    /\ next_row(fill.ws, fill.r, fill.visit_start + 60) = 0
    /\ fill' = [fill EXCEPT !.at = "export"]
    /\ UNCHANGED <<Tester, pc, attempts, gen, itin, upd>>

\* the export button: Application.Run("ExportSingleVisitByNum", visit_num) in
\* a try block
FillExport ==
    /\ fill.at = "export"
    /\ fill' = [fill EXCEPT
          !.at = "returned",
          !.log = Append(@, Macro("Export", "ExportSingleVisitByNum",
                                  fill.visit_start, TRUE))]
    /\ UNCHANGED <<Tester, pc, attempts, gen, itin, upd>>

NextFill == FillStart \/ FillRow \/ FillRowsEnd \/ FillExport

SpecFill == InitFill /\ [][NextFill]_vars

\* ================================================================ claims
LastOf(seq) == seq[Len(seq)]
HasFailedStep(t) == \E j \in 1..Len(t.steps) : t.steps[j].status = "fail"

\* C1: step never lets an exception of its action escape.  When the action
\* raises, step returns False and, with a current test, appends exactly one
\* step record with status "fail" and the exception message plus one error
\* record; when the action returns, step returns True and, with a current
\* test, appends exactly one step record with status "pass".  Nothing else
\* of the tester changes.
C1_StepContract ==
    [][last'.op = "step" =>
        /\ last'.ret = ~last'.raised
        /\ current_test' = current_test
        /\ test_results' = test_results
        /\ Len(tests') = Len(tests)
        /\ \A k \in 1..Len(tests) : k # current_test => tests'[k] = tests[k]
        /\ current_test # 0 =>
             LET t == tests[current_test]
                 u == tests'[current_test]
             IN IF last'.raised
                THEN /\ u.steps = Append(t.steps,
                            [description |-> last'.description,
                             status |-> "fail", details |-> last'.msg])
                     /\ u.errors = Append(t.errors, [error |-> last'.msg])
                     /\ last'.msg # None
                ELSE /\ u.steps = Append(t.steps,
                            [description |-> last'.description,
                             status |-> "pass", details |-> None])
                     /\ u.errors = t.errors
    ]_vars

\* C1 witness: a step whose action raised was recorded on the current test
C1_Witness ==
    /\ last.op = "step" /\ last.raised /\ ~last.ret
    /\ current_test # 0
    /\ Len(tests[current_test].steps) = 2
    /\ LastOf(tests[current_test].steps).status = "fail"
    /\ tests[current_test].steps[1].status = "pass"

\* C2: right after finish_test the finished test has status "fail" if one
\* of its recorded steps has status "fail", and status "pass" otherwise.
C2_FinishStatus ==
    [][Len(test_results') > Len(test_results) =>
        LET t == tests'[LastOf(test_results')]
        IN t.status = IF HasFailedStep(t) THEN "fail" ELSE "pass"
    ]_vars

\* C2 witness: a finished test with a passed and a failed step
C2_Witness ==
    /\ last.op = "finish_test"
    /\ test_results # <<>>
    /\ LET t == tests[LastOf(test_results)]
       IN /\ t.status = "fail"
          /\ Len(t.steps) = 2
          /\ t.steps[1].status = "fail"
          /\ t.steps[2].status = "pass"

\* C3: a step during which a macro run in a try block (run_macro, the
\* per-visit export) raised is recorded with status "fail".
C3_MacroFailureFailsStep ==
    (last.op = "step" /\ last.macroFailed /\ current_test # 0)
        => LastOf(tests[current_test].steps).status = "fail"

\* C4: every report lists, for the test of the scenario, one entry per step
\* the scenario executed, in execution order, with the status of that step.
C4_ReportListsSteps ==
    \A r \in 1..Len(reports) :
        /\ Len(reports[r].cases) = Len(test_results)
        /\ \A i \in 1..Len(reports[r].cases) :
              reports[r].cases[i].steps =
                 [j \in 1..Len(attempts) |->
                    [status |-> IF attempts[j].ret THEN "pass" ELSE "fail",
                     description |-> attempts[j].description]]

\* C4 witness: a report of a run in which the first and the last step failed
C4_Witness ==
    /\ reports # <<>>
    /\ Len(reports[1].cases) = 1
    /\ Len(reports[1].cases[1].steps) = Len(NormalDay)
    /\ reports[1].cases[1].steps[1].status = "fail"
    /\ reports[1].cases[1].steps[2].status = "pass"
    /\ reports[1].cases[1].steps[Len(NormalDay)].status = "fail"

\* C5: a report's Passed number is the number of listed tests with status
\* "pass", its Failed number the number with status "fail", and the two add
\* up to the number of tests listed.
C5_ReportCounts ==
    [][Len(reports') > Len(reports) =>
        LET r == LastOf(reports')
            n == Len(test_results)
        IN /\ r.passed = Cardinality({i \in 1..n : tests[test_results[i]].status = "pass"})
           /\ r.failed = Cardinality({i \in 1..n : tests[test_results[i]].status = "fail"})
           /\ r.passed + r.failed = Len(r.cases)
           /\ Len(r.cases) = n
    ]_vars

\* C5 witness: a report of two listed tests that counts failed tests
C5_Witness ==
    /\ reports # <<>>
    /\ Len(reports[1].cases) = 2
    /\ reports[1].failed >= 1
    /\ reports[1].passed + reports[1].failed = 2

\* C7: once scenario_normal_day is entered it reaches finish_test, having
\* attempted its twelve step actions once each in program order and having
\* recorded twelve steps in that order, whichever of them failed.
NormalDayRan ==
    /\ Len(attempts) = Len(NormalDay)
    /\ \A j \in 1..Len(NormalDay) :
          /\ attempts[j].kind = NormalDay[j].kind
          /\ attempts[j].description = NormalDay[j].description
    /\ Len(tests[1].steps) = Len(NormalDay)
    /\ \A j \in 1..Len(NormalDay) :
          /\ tests[1].steps[j].description = NormalDay[j].description
          /\ tests[1].steps[j].status = IF attempts[j].ret THEN "pass" ELSE "fail"

C7_ScenarioRunsAllSteps ==
    (pc = At("scenario_normal_day", 0))
        ~> (test_results = <<1>> /\ tests[1].end_time # None /\ NormalDayRan)

\* C7 witness: the scenario finished although its first two steps failed
C7_Witness ==
    /\ test_results = <<1>>
    /\ NormalDayRan
    /\ ~attempts[1].ret /\ ~attempts[2].ret /\ attempts[3].ret
    /\ ~attempts[Len(NormalDay)].ret

\* C6: a call of generate sends at most one POST to /api/generate, whether
\* the request succeeds, returns another status than 200, or raises.
C6_AtMostOnePost == gen.called => gen.posts <= 1

\* C6 witness: calls whose single POST raised, and whose POST returned 500
C6_Witness ==
    /\ gen.called /\ gen.posts = 1
    /\ gen.response.raises
    /\ gen.result \in FallbackTexts

\* C8: available is true exactly when the GET /api/tags probe of the
\* constructor returned status 200, and a generator that is not available
\* sends no POST.
C8_AvailabilityGate ==
    gen.constructed =>
        /\ gen.available <=>
              (gen.probed /\ ~gen.probe.raises /\ gen.probe.status = 200)
        /\ (gen.called /\ ~gen.available) => gen.posts = 0

\* C8 witness: a generator whose probe raised was asked for a text
C8_Witness ==
    /\ gen.constructed /\ gen.probed /\ gen.probe.raises
    /\ ~gen.available
    /\ gen.called /\ gen.posts = 0 /\ gen.result \in FallbackTexts

\* C9 as stated: generate never raises; it returns the generated text
\* whenever the POST returned status 200 and a fallback text otherwise.
C9_TextOn200 ==
    gen.called =>
        /\ ~gen.raised
        /\ IF gen.posts = 1 /\ ~gen.response.raises /\ gen.response.status = 200
           THEN gen.result = strip(gen.response.text)
           ELSE gen.result \in FallbackTexts

\* C9 as amended: generate never raises; it returns the stripped generated
\* text when the POST returned status 200 with a JSON object whose
\* "response" is a string (the empty text when "response" is missing), and
\* a fallback text in every other case, a 200 whose body cannot be decoded
\* included.
C9_TextOnDecoded200 ==
    gen.called =>
        /\ ~gen.raised
        /\ IF /\ gen.posts = 1 /\ ~gen.response.raises
              /\ gen.response.status = 200
              /\ gen.response.json \in {"object", "no_response"}
           THEN gen.result = strip(gen.response.text)
           ELSE gen.result \in FallbackTexts

\* C9 witness: generated text with blanks around it came back stripped
C9_Witness ==
    /\ gen.called /\ gen.posts = 1
    /\ gen.response.status = 200 /\ gen.response.json = "object"
    /\ gen.response.text = <<" ", "x">>
    /\ gen.result = <<"x">>

\* C10: a saved itinerary has the ten headers in row 7, columns 1 to 10,
\* and its cells below and above are exactly those of rows 8 to
\* 7 + num_visits, all ten columns of each, with Loc 1 to num_visits in row
\* order.
C10_FixedLayout ==
    itin.saved =>
        LET f == itin.file
            n == itin.num_visits
        IN /\ DOMAIN f = (7..(7 + n)) \X (1..10)
           /\ \A c \in 1..10 : f[<<7, c>>] = headers[c]
           /\ headers = <<"Loc", "Unit", "Defendant", "Officer", "Starts",
                          "Cell Phone", "Address", "City", "Zip", "Comment">>
           /\ \A k \in 1..n : f[<<7 + k, 1>>] = k

\* C10 witness: a saved itinerary of three visits
C10_Witness ==
    /\ itin.saved
    /\ itin.num_visits = 3
    /\ itin.file[<<10, 1>>] = 3
    /\ itin.file[<<10, 10>>] = "FTR"

\* C11: a run of main that passed the existence check of its input files has
\* written exactly one report when it comes to its finally clause, and that
\* report was written after the last step of the scenario was recorded and
\* finish_test was called.
C11_OneReportPerRun ==
    pc = At("main", 3) =>
        /\ Len(reports) = 1
        /\ test_results = <<1>>
        /\ NormalDayRan
        /\ Len(reports[1].cases) = 1
        /\ Len(reports[1].cases[1].steps) = Len(NormalDay)

\* C12: the file generate_updated_itinerary saves holds every cell of the
\* original unchanged, and besides them exactly num_additional rows of ten
\* cells right below the last original row, with Loc continuing the
\* numbering of the original.
C12_OriginalPlusNew ==
    upd.at = "done" =>
        LET o == upd.original
            f == upd.file
            below == header_row + upd.n
        IN /\ DOMAIN f = DOMAIN o \cup
                    ((below + 1)..(below + upd.num_additional)) \X (1..10)
           /\ \A k \in 1..upd.num_additional : f[<<below + k, 1>>] = upd.n + k
           /\ \A q \in DOMAIN o : f[q] = o[q]

\* C13: in a saved itinerary no two data rows have the same address and no
\* two data rows have the same defendant.
C13_UniqueRows ==
    itin.saved =>
        \A k1, k2 \in 1..itin.num_visits :
            k1 # k2 =>
               /\ itin.file[<<visit_row(k1 - 1), 7>>] # itin.file[<<visit_row(k2 - 1), 7>>]
               /\ itin.file[<<visit_row(k1 - 1), 3>>] # itin.file[<<visit_row(k2 - 1), 3>>]

\* C14: a TestResult starts "running"; its status changes only in finish
\* (called by finish_test) and only to "pass" or "fail"; every element of
\* test_results has status "pass" or "fail" and an end time; no TestResult
\* is in test_results twice.
C14_Lifecycle ==
    [][/\ \A k \in 1..Len(tests') :
             IF k > Len(tests)
             THEN tests'[k].status = "running"
             ELSE tests'[k].status # tests[k].status =>
                     /\ last'.op = "finish_test"
                     /\ tests'[k].status \in {"pass", "fail"}
       /\ \A i \in 1..Len(test_results') :
             /\ tests'[test_results'[i]].status \in {"pass", "fail"}
             /\ tests'[test_results'[i]].end_time # None
       /\ \A i, j \in 1..Len(test_results') :
             i # j => test_results'[i] # test_results'[j]
    ]_vars

\* C14 witness: two scenarios finished, the first failed, the second passed
C14_Witness ==
    /\ test_results = <<1, 2>>
    /\ tests[1].status = "fail" /\ tests[1].end_time # None
    /\ tests[2].status = "pass" /\ tests[2].end_time # None

\* what _fill_visit did while it filled the rows with the given label
Did(label) == SelectSeq(fill.log, LAMBDA e : e.label = label)

\* C15: the outcome _fill_visit writes for a visit of type "FTR" is
\* "Unsuccessful", whatever the test_config.
C15_FTRUnsuccessful ==
    (fill.decided /\ fill.visit_type = FTR) =>
        /\ fill.outcome = "Unsuccessful"
        /\ \A j \in 1..Len(Did("Outcome:")) :
              Did("Outcome:")[j].col = 2 =>
                 Did("Outcome:")[j].value = Str("Unsuccessful")

\* C16: the consent _fill_visit writes is "Yes" exactly when the outcome is
\* "Successful", "No" exactly when the reason is "P Denied Access", and
\* "N/A" in the remaining cases.
C16_ConsentByOutcome ==
    fill.decided =>
        /\ fill.consent_value =
              IF fill.outcome = "Successful" THEN "Yes"
              ELSE IF fill.reason = "P Denied Access" THEN "No"
              ELSE "N/A"
        /\ \A j \in 1..Len(Did("Consent to Enter Home:")) :
              Did("Consent to Enter Home:")[j].value = Str(fill.consent_value)

\* C17: the reason is non-empty exactly when the outcome is "Unsuccessful";
\* a reason is written only right after an "Unsuccessful" outcome, in the
\* same row; without force_reason the reason of an unsuccessful visit is Not
\* Home, Wrong Address or P Denied Access, and not P Denied Access for an
\* FTR visit.
C17_ReasonOnlyUnsuccessful ==
    fill.decided =>
        LET o == Did("Outcome:") IN
        /\ fill.reason # "" <=> fill.outcome = "Unsuccessful"
        /\ \A j \in 1..Len(o) :
              o[j].col = 4 =>
                 /\ fill.outcome = "Unsuccessful"
                 /\ o[j].value = Str(fill.reason)
                 /\ j = 2
                 /\ o[1] = Write("Outcome:", o[j].row, 2, Str("Unsuccessful"))
        /\ (fill.at = "returned" /\ Len(o) > 0 /\ fill.outcome = "Unsuccessful")
              => Len(o) = 2 /\ o[2].col = 4
        /\ (~has(fill.test_config, "force_reason") /\ fill.reason # "") =>
              /\ fill.reason \in {"Not Home", "Wrong Address", "P Denied Access"}
              /\ fill.visit_type = FTR => fill.reason # "P Denied Access"

\* C17 witness: an FTR visit without test_config was filled as unsuccessful,
\* the address being wrong
C17_Witness ==
    /\ fill.at = "returned" /\ fill.decided
    /\ fill.visit_type = FTR /\ fill.test_config = NoConfig
    /\ fill.reason = "Wrong Address"
    /\ Len(Did("Outcome:")) = 2
    /\ Did("Outcome:")[2].value = Str("Wrong Address")

\* C18: _fill_visit writes "Yes" into the Red Flags cell, types red flag
\* details and marks a category checkbox only when force_red_flag is true
\* and the outcome is "Successful"; it then marks exactly one checkbox, six
\* rows below the label, in the column of the flag type the details are
\* about (Alcohol 1, Drugs 2, Guns 3, Knives 4, IP 5), and types the details
\* two rows below the label.
C18_RedFlagOnlyOnSuccess ==
    fill.decided =>
        LET f == Did("Red Flags:")
            col == [Alcohol |-> 1, Drugs |-> 2, Guns |-> 3, Knives |-> 4, IP |-> 5]
        IN /\ f # <<>> =>
                 /\ get(fill.test_config, "force_red_flag", FALSE)
                 /\ fill.outcome = "Successful"
                 /\ f[1].op = "write" /\ f[1].col = 2 /\ f[1].value = Str("Yes")
           /\ \A j \in 1..Len(f) :
                 /\ f[j].op = "type" =>
                       /\ f[j].row = f[1].row + 2 /\ f[j].col = 1
                       /\ f[j].value.text \in DOMAIN col
                 /\ f[j].value = Str("X") =>
                       /\ j = 4 /\ f[3].op = "type"
                       /\ f[j].row = f[1].row + 6
                       /\ f[j].col = col[f[3].value.text]
           /\ (/\ fill.at = "returned"
               /\ get(fill.test_config, "force_red_flag", FALSE)
               /\ fill.outcome = "Successful") =>
                 /\ Len(f) = 4
                 /\ Cardinality({j \in 1..Len(f) : f[j].value = Str("X")}) = 1
                 /\ Cardinality({j \in 1..Len(f) : f[j].op = "type"}) = 1

\* C18 witness: a successful visit was filled with a red flag about guns
C18_Witness ==
    /\ fill.at = "returned" /\ fill.decided
    /\ fill.outcome = "Successful"
    /\ Len(Did("Red Flags:")) = 4
    /\ Did("Red Flags:")[3].value = Str("Guns")
    /\ Did("Red Flags:")[4].col = 3
    /\ Did("Red Flags:")[4].value = Str("X")

\* C19: the arrival hour is in 8..11 for a type of visit that contains "AM"
\* and the departure is then before 12:00 PM; it is in 12..16 for a type
\* that contains "PM" and the departure is then before 5:00 PM; it is in
\* 8..16 for the other types.  The arrival minute is in 0..45, the departure
\* is 8 to 12 minutes after the arrival and in the same hour, and these are
\* the two times written next to "Arrived:".
C19_TimesInWindow ==
    fill.decided =>
        LET am == contains(<<"A", "M">>, fill.visit_type)
            pm == contains(<<"P", "M">>, fill.visit_type)
            hour == fill.arrival \div 60
            minute == fill.arrival % 60
            a == Did("Arrived:")
        IN /\ fill.visit_num >= 1
           /\ am => hour \in 8..11 /\ fill.departure < 12 * 60
           /\ pm => hour \in 12..16 /\ fill.departure < 17 * 60
           /\ (~am /\ ~pm) => hour \in 8..16
           /\ minute \in 0..45
           /\ fill.departure - fill.arrival \in 8..12
           /\ fill.departure > fill.arrival
           /\ fill.departure \div 60 = hour
           /\ \A j \in 1..Len(a) :
                 /\ a[j].col = 2 =>
                       a[j].value.time =
                          [I |-> IF hour > 12 THEN hour - 12 ELSE hour,
                           M |-> minute,
                           p |-> IF hour < 12 THEN "AM" ELSE "PM"]
                 /\ a[j].col = 4 =>
                       a[j].value.time =
                          [I |-> IF hour > 12 THEN hour - 12 ELSE hour,
                           M |-> fill.departure % 60,
                           p |-> IF hour < 12 THEN "AM" ELSE "PM"]

\* C19 witness: visit 10 of type "HR PM" arrived at 4:45 PM and left at
\* 4:57 PM, and both times were written
C19_Witness ==
    /\ fill.at = "returned" /\ fill.decided
    /\ fill.visit_num = 10 /\ fill.visit_type = HR_PM
    /\ fill.arrival = 16 * 60 + 45 /\ fill.departure = 16 * 60 + 57
    /\ Len(Did("Arrived:")) = 2
    /\ Did("Arrived:")[2].value.time = [I |-> 4, M |-> 57, p |-> "PM"]

\* C20: with vehicle_count 0 _fill_visit runs NoVehiclesNoted once and
\* writes no vehicle cell.  With vehicle_count k > 0 it writes the four
\* cells of vehicle rows 1, 2, ... in that order, k rows at most, each row
\* one below the one before, the first two rows below "Vehicles:"; it runs
\* AddVehicleRow once right before each of the rows 3 and up and never
\* before rows 1 and 2, and after an AddVehicleRow that raised it does
\* nothing more to the vehicles; when none raised all k rows are written.
C20_VehiclesFollowCount ==
    fill.decided =>
        LET v == Did("Vehicles:")
            k == get(fill.test_config, "vehicle_count", 1)
            writes(j) == Cardinality({i \in 1..j : v[i].op = "write"})
            label_row == CHOOSE r \in 1..(fill.visit_start + 60) :
                            label_at(fill.ws, r) = "Vehicles:"
            ran == fill.at \in {"export", "returned"}
                     \/ (fill.at = "rows" /\ fill.r > label_row)
        IN /\ k = 0 =>
                 /\ \A j \in 1..Len(v) :
                       v[j].op = "macro" /\ v[j].value = Str("NoVehiclesNoted")
                 /\ Len(v) <= 1
                 /\ ran => Len(v) = 1
           /\ k > 0 =>
                 \A j \in 1..Len(v) :
                    /\ v[j].op = "write" =>
                          LET row == (writes(j) - 1) \div 4 IN
                          /\ row < k
                          /\ v[j].row = label_row + 2 + row
                          /\ v[j].col = ((writes(j) - 1) % 4) + 1
                          /\ (v[j].col = 1 /\ row >= 2) =>
                                v[j - 1].op = "macro" /\ v[j - 1].ok
                          /\ (v[j].col = 1 /\ row < 2 /\ j > 1) =>
                                v[j - 1].op = "write"
                    /\ v[j].op = "macro" =>
                          /\ v[j].value = Str("AddVehicleRow")
                          /\ writes(j) % 4 = 0 /\ writes(j) \div 4 >= 2
                          /\ v[j - 1].op = "write"
                          /\ ~v[j].ok => j = Len(v)
                    /\ v[j].op \in {"write", "macro"}
           /\ (k > 0 /\ ran /\ \A j \in 1..Len(v) : v[j].ok) =>
                 writes(Len(v)) = 4 * k

\* C20 witness: of three vehicles two were written, AddVehicleRow having
\* raised before the third
C20_Witness ==
    /\ fill.at = "returned" /\ fill.decided
    /\ get(fill.test_config, "vehicle_count", 1) = 3
    /\ Len(Did("Vehicles:")) = 9
    /\ Did("Vehicles:")[9].op = "macro" /\ ~Did("Vehicles:")[9].ok
    /\ Did("Vehicles:")[8] = Write("Vehicles:", VISIT_START + 12, 4, Str("Camry"))

\* C21: _find_visit_row gives the first row of 1..499 whose column A header
\* is that of visit number visit_num exactly, and None (0) when the sheet
\* has no section of that visit; never the row of another visit
C21_FindsExactVisit ==
    (fill.at \notin {"none", "start"} /\ fill.sheet) =>
        LET exact == {r \in 1..499 :
                        /\ <<r, 1>> \in DOMAIN fill.ws
                        /\ "num" \in DOMAIN fill.ws[<<r, 1>>]
                        /\ fill.ws[<<r, 1>>].num = fill.visit_num}
        IN fill.visit_start =
              IF exact = {} THEN 0
              ELSE CHOOSE r \in exact : \A x \in exact : r <= x

\* C22: a "Fill out Visit #n" step has status "pass" only if the Visit Sheet
\* was there and the section of the visit was found and filled; with the
\* sheet missing or the section not found the step has status "fail"
C22_FillStepPassOnlyIfFilled ==
    (last.op = "step" /\ last.description = DescriptionOf("fill_visit")
        /\ current_test # 0)
        => (LastOf(tests[current_test].steps).status = "pass" => last.filled)

\* C23: with the service unavailable each generate_* method returns a
\* fallback text of its own kind: generate_residence_description one of
\* FALLBACK_RESIDENCE_DESCRIPTIONS, generate_observed_description one of
\* FALLBACK_OBSERVED_DESCRIPTIONS, generate_red_flag_description one of
\* FALLBACK_RED_FLAG_DESCRIPTIONS
C23_FallbackMatchesKind ==
    (gen.called /\ ~gen.available) =>
        /\ gen.method = "generate_residence_description"
              => gen.result \in FALLBACK_RESIDENCE_DESCRIPTIONS
        /\ gen.method = "generate_observed_description"
              => gen.result \in FALLBACK_OBSERVED_DESCRIPTIONS
        /\ gen.method = "generate_red_flag_description"
              => gen.result \in FALLBACK_RED_FLAG_DESCRIPTIONS
====
